---- MODULE Spec2Model ----
(***************************************************************************)
(* AuthProvider (src/src/contexts/AuthContext.tsx): the session lifecycle  *)
(* controller.  One behaviour is one mount of the provider.  Every step is *)
(* one run-to-completion piece of JavaScript: the code between two awaits  *)
(* of an async function, together with the continuation of the awaiting    *)
(* caller, which runs in the same microtask drain, and the navigation      *)
(* tracking effect React runs after the render the step causes.            *)
(***************************************************************************)
EXTENDS Integers, Sequences, FiniteSets, Bags, TLC

\* ---- bounds of the model
\* what reaches the provider after the mount: events delivered to the
\* listener, restoreSession and signOut calls, refused sign-ins, route changes
MaxCalls == 2

\* ---- values
Null == <<>>
None == "null"
UserIds == {"u1", "u2"}
CallbackPath == "/auth/callback"
RootPath == "/"
Paths == {RootPath, CallbackPath, "/dashboard"}
NoRowsCode == "PGRST116"

\* A User is named by its id; its email and user_metadata are functions of it.
Email(id) == id \o "@mail"
FullName(id) == "name of " \o id
AvatarUrl(id) == "avatar of " \o id

\* A Session carries its user.
Sessions == {[user |-> id] : id \in UserIds}

\* A user_profiles row: metadata names the identity whose email, full_name and
\* avatar_url the row holds, None for the '' / null / null of lines 162-164.
RowEmail(row) == IF row.metadata = None THEN "" ELSE Email(row.metadata)
RowFullName(row) == IF row.metadata = None THEN None ELSE FullName(row.metadata)
RowAvatarUrl(row) == IF row.metadata = None THEN None ELSE AvatarUrl(row.metadata)

ExistingRow(id) == [id |-> id, metadata |-> id, subscription_status |-> "premium"]

AuthEvent(event, s) == [event |-> event, session |-> s]

VARIABLES
    session, user, userProfile, loading, isInitialized, sessionError,
    lastUserLocation, pathname, user_profiles, boot, pending, started, timers, lifecycle,
    subscriptions, raised

\* subscriptions: the listeners this provider has registered with the auth
\* event stream; raised: the error the step's completed call hands to its
\* caller (None when it resolves or when no call of the application ends)
vars ==
    <<session, user, userProfile, loading, isInitialized, sessionError,
      lastUserLocation, pathname, user_profiles, boot, pending, started, timers, lifecycle,
      subscriptions, raised>>

\* ---- the async calls of one mount: boot is getInitialSession, pending the
\* ---- bag of the listener invocations, restoreSession and signOut calls that
\* ---- await a response, started the number of inputs taken so far
Idle ==
    [op |-> "-", pc |-> "idle", event |-> "-", userId |-> None, closureUser |-> None,
     result |-> "-", overtaken |-> FALSE]
Started(op, pc) == [Idle EXCEPT !.op = op, !.pc = pc]
Done(c, result) == [Idle EXCEPT !.op = c.op, !.pc = "done", !.result = result]

InFlight == {boot} \cup BagToSet(pending)
Awaiting(pc) == {c \in InFlight : c.pc = pc}
Handlers == {c \in BagToSet(pending) : c.op = "onAuthStateChange"}
Restores == {c \in BagToSet(pending) : c.op = "restoreSession"}
SignOuts == {c \in BagToSet(pending) : c.op = "signOut"}

\* call c goes on as c2, begins as c2, or returns
Resume(c, c2) ==
    IF c.op = "getInitialSession"
    THEN boot' = c2 /\ UNCHANGED <<pending, started>>
    ELSE pending' = (pending (-) SetToBag({c})) (+) SetToBag({c2}) /\ UNCHANGED <<boot, started>>
Begin(c2) ==
    /\ started < MaxCalls
    /\ pending' = pending (+) SetToBag({c2})
    /\ started' = started + 1
    /\ UNCHANGED boot
Return(c, result) ==
    IF c.op = "getInitialSession"
    THEN boot' = Done(c, result) /\ UNCHANGED <<pending, started>>
    ELSE pending' = pending (-) SetToBag({c}) /\ UNCHANGED <<boot, started>>

\* an event reaches the listener: the getSession calls in flight (line 67,
\* line 236) are from now on older than the newest event, and the listener's
\* own calls join the bag
Overtake(c) == IF c.pc = "getSession" THEN [c EXCEPT !.overtaken = TRUE] ELSE c
OvertakeAll(B) ==
    LET Sources(d) == {c \in BagToSet(B) : Overtake(c) = d}
        Copies(d) == IF d \in Sources(d)
                     THEN IF Cardinality(Sources(d)) = 1
                          THEN B[d]
                          ELSE B[d] + B[[d EXCEPT !.overtaken = FALSE]]
                     ELSE B[[d EXCEPT !.overtaken = FALSE]]
    IN  [d \in {Overtake(c) : c \in BagToSet(B)} |-> Copies(d)]
Deliver(calls) ==
    /\ started < MaxCalls
    /\ started' = started + 1
    /\ boot' = Overtake(boot)
    /\ pending' = OvertakeAll(pending) (+) calls

\* ---- the closures of the mount effect (useEffect with [] dependencies): the
\* ---- listener and getInitialSession see the first render's state for ever
MountLoading == TRUE
MountUser == None

\* (a variant that reads the identity of the render, not the payload's)
UserOf_RenderUser(s) == IF s = Null THEN None ELSE user

\* session?.user ?? null
UserOf(s) == IF s = Null THEN None ELSE s.user

\* ---- Location Memory
storeUserLocation(path) == path
getStoredLocation == lastUserLocation
clearStoredLocation == None

\* The navigation tracking effect, run after a render in which user or
\* isInitialized changed (a session payload carries its own user object, so
\* every setUser of a non-null user re-runs it): loc is Last Location before
\* the effect.
\* (a variant without the callback-path test of line 185)
TrackNavigation_AnyPath(u, init, loc) ==
    IF lifecycle = "mounted" /\ u # None /\ init
    THEN storeUserLocation(pathname)
    ELSE loc

TrackNavigation(u, init, loc) ==
    IF lifecycle = "mounted" /\ u # None /\ init /\ pathname # CallbackPath
    THEN storeUserLocation(pathname)
    ELSE loc

\* The state after the mount effect has run: getInitialSession awaits
\* getSession (lines 63-67) and the listener is subscribed (line 93).  The
\* page was loaded at the root path or at the OAuth callback path, and the
\* database holds rows for both users or for none.
Init ==
    /\ session = Null
    /\ user = MountUser
    /\ userProfile = Null
    /\ loading = MountLoading
    /\ isInitialized = FALSE
    /\ sessionError = None
    /\ lastUserLocation \in {None, "/dashboard"}
    /\ pathname \in {RootPath, CallbackPath}
    /\ user_profiles \in {[id \in UserIds |-> IF id \in S THEN ExistingRow(id) ELSE Null] :
                            S \in {{}, UserIds}}
    /\ boot = Started("getInitialSession", "getSession")
    /\ pending = EmptyBag
    /\ started = 0
    /\ timers = <<>>
    /\ lifecycle = "mounted"
    /\ subscriptions = 1
    /\ raised = None

\* ---- responses of the external service
Response(threw, data, error) == [threw |-> threw, data |-> data, error |-> error]

\* supabase.auth.getSession(): data is the session or null
SessionResponses ==
    {Response(FALSE, s, Null) : s \in Sessions \cup {Null}}
    \cup {Response(FALSE, Null, [message |-> "network down", instanceOfError |-> TRUE])}
    \cup {Response(TRUE, Null, [message |-> "network down", instanceOfError |-> b]) : b \in BOOLEAN}

\* from('user_profiles').select('*').eq('id', id).single()
LookupResponses(id) ==
    (IF user_profiles[id] # Null
     THEN {Response(FALSE, user_profiles[id], Null)}
     ELSE {Response(FALSE, Null, [code |-> NoRowsCode]), Response(FALSE, Null, Null)})
    \cup {Response(FALSE, Null, [code |-> "500"]), Response(TRUE, Null, Null)}

\* (a variant that leaves the subscription status to the database)
NewProfile_NoStatus(id, closureUser) ==
    [id |-> id, metadata |-> closureUser, subscription_status |-> None]

\* the row createUserProfile sends: `user` is the closure's user
NewProfile(id, closureUser) ==
    [id |-> id, metadata |-> closureUser, subscription_status |-> "free"]

\* from('user_profiles').insert([row]).select().single(): id is the primary key
InsertResponses(row) ==
    (IF user_profiles[row.id] = Null
     THEN {Response(FALSE, row, Null)}
     ELSE {Response(FALSE, Null, [code |-> "23505"])})
    \cup {Response(FALSE, Null, [code |-> "500"]), Response(TRUE, Null, Null)}

\* supabase.auth.signOut()
SignOutResponses ==
    {Response(FALSE, Null, Null), Response(FALSE, Null, [message |-> "sign-out failed"]),
     Response(TRUE, Null, Null)}

\* ---- getInitialSession, lines 61-88
\* (a variant whose catch block logs the exception without recording it)
SessionErrorMessage_CatchOnlyLogs(r) == IF r.threw THEN None ELSE r.error.message

\* lines 69-71 and 80-82: the message recorded for a failed fetch
SessionErrorMessage(r) ==
    IF r.threw /\ ~r.error.instanceOfError THEN "Unknown error" ELSE r.error.message

\* (a variant that completes initialization only for a signed-in identity)
BootFinally_SignedInOnly(u) ==
    /\ loading' = FALSE
    /\ isInitialized' = (u # None)
    /\ lastUserLocation' = TrackNavigation(u, u # None, lastUserLocation)
    /\ UNCHANGED timers

\* lines 83-87, and the tracking effect of the render that follows; u is the
\* identity that render sees
BootFinally(u) ==
    /\ loading' = FALSE
    /\ isInitialized' = TRUE
    /\ lastUserLocation' = TrackNavigation(u, TRUE, lastUserLocation)
    /\ UNCHANGED timers

\* ---- the change listener, lines 94-125
\* (a variant without the root-path test)
ShouldRedirect_NoRootTest(event, lastLocation) ==
    /\ event = "SIGNED_IN"
    /\ lastLocation # None /\ lastLocation # CallbackPath

\* line 109
ShouldRedirect(event, lastLocation) ==
    /\ event = "SIGNED_IN"
    /\ lastLocation # None /\ lastLocation # CallbackPath /\ lastLocation # RootPath

\* (a variant that forgets the clear of lines 118-120)
HandlerTail_KeepsLocation(event) ==
    /\ timers' = IF ShouldRedirect(event, lastUserLocation)
                 THEN Append(timers, lastUserLocation)
                 ELSE timers
    /\ loading' = IF ~MountLoading THEN FALSE ELSE loading
    /\ UNCHANGED <<isInitialized, lastUserLocation>>

\* lines 106-124: what the handler does after the profile branch; the
\* setTimeout of line 111 becomes a pending timer
HandlerTail(event) ==
    /\ timers' = IF ShouldRedirect(event, lastUserLocation)
                 THEN Append(timers, lastUserLocation)
                 ELSE timers
    /\ lastUserLocation' = IF event = "SIGNED_OUT" THEN clearStoredLocation ELSE lastUserLocation
    /\ loading' = IF ~MountLoading THEN FALSE ELSE loading
    /\ UNCHANGED isInitialized

\* (a variant of restoreSession without the finally)
RestoreFinally_KeepsLoading ==
    UNCHANGED <<loading, isInitialized, lastUserLocation, timers>>

\* ---- restoreSession, lines 250-252
RestoreFinally ==
    /\ loading' = FALSE
    /\ UNCHANGED <<isInitialized, lastUserLocation, timers>>

\* The caller's continuation once `await fetchUserProfile(...)` returns.
AfterFetchUserProfile(c) ==
    /\ CASE c.op = "getInitialSession" -> BootFinally(user)
         [] c.op = "onAuthStateChange" -> HandlerTail(c.event)
         [] c.op = "restoreSession" -> RestoreFinally
    /\ Return(c, c.result)

\* the call fetchUserProfile(id) up to its first await
FetchUserProfileCall(op, id, event, closureUser, result) ==
    [op |-> op, pc |-> "lookup", event |-> event, userId |-> id,
     closureUser |-> closureUser, result |-> result, overtaken |-> FALSE]

\* ---- fetchUserProfile, lines 131-153
\* (a variant that takes every error result for "no rows")
LookupFailed_OnlyThrow(r) == r.threw

\* lines 139-142 and the catch of line 150
LookupFailed(r) == r.threw \/ (r.error # Null /\ r.error.code # NoRowsCode)

FetchUserProfileReturn(c, r) ==
    /\ lifecycle = "mounted"
    /\ raised' = None
    /\ c \in Awaiting("lookup")
    /\ r \in LookupResponses(c.userId)
    /\ IF LookupFailed(r)
       THEN UNCHANGED userProfile /\ AfterFetchUserProfile(c)
       ELSE IF r.data # Null
            THEN userProfile' = r.data /\ AfterFetchUserProfile(c)
            ELSE /\ Resume(c, [c EXCEPT !.pc = "insert"])
                 /\ UNCHANGED <<userProfile, loading, isInitialized, lastUserLocation, timers>>
    /\ UNCHANGED <<session, user, sessionError, pathname, user_profiles, lifecycle, subscriptions>>

\* ---- createUserProfile, lines 155-179
CreateUserProfileReturn(c, r) ==
    /\ lifecycle = "mounted"
    /\ raised' = None
    /\ c \in Awaiting("insert")
    /\ r \in InsertResponses(NewProfile(c.userId, c.closureUser))
    /\ user_profiles' = IF ~r.threw /\ r.error = Null
                        THEN [user_profiles EXCEPT ![c.userId] = r.data]
                        ELSE user_profiles
    /\ userProfile' = IF r.threw \/ r.error # Null THEN userProfile ELSE r.data
    /\ AfterFetchUserProfile(c)
    /\ UNCHANGED <<session, user, sessionError, pathname, lifecycle, subscriptions>>

\* ---- getInitialSession resumes after `await supabase.auth.getSession()`
BootGetSessionReturn(r) ==
    /\ lifecycle = "mounted"
    /\ raised' = None
    /\ boot.pc = "getSession"
    /\ r \in SessionResponses
    /\ IF r.threw \/ r.error # Null
       THEN /\ sessionError' = SessionErrorMessage(r)
            /\ UNCHANGED <<session, user>>
            /\ BootFinally(user)
            /\ Return(boot, "failed")
       ELSE /\ session' = r.data
            /\ user' = UserOf(r.data)
            /\ UNCHANGED sessionError
            /\ IF UserOf(r.data) # None
               THEN /\ Resume(boot, FetchUserProfileCall("getInitialSession", r.data.user, "-",
                                                         MountUser, "ok"))
                    /\ UNCHANGED <<loading, isInitialized, lastUserLocation, timers>>
               ELSE /\ BootFinally(None)
                    /\ Return(boot, "ok")
    /\ UNCHANGED <<userProfile, pathname, user_profiles, lifecycle, subscriptions>>

\* the events the service can deliver: a sign-in, the sign-out, and the
\* refresh of the session the store holds
AuthEvents ==
    {AuthEvent("SIGNED_IN", s) : s \in Sessions}
    \cup {AuthEvent("SIGNED_OUT", Null)}
    \cup {AuthEvent("TOKEN_REFRESHED", s) : s \in {session} \ {Null}}

\* ---- supabase delivers (event, session) to the listener, lines 94-125
AuthStateChange(e) ==
    /\ lifecycle = "mounted"
    /\ raised' = None
    /\ e \in AuthEvents
    /\ started < MaxCalls
    /\ session' = e.session
    /\ user' = UserOf(e.session)
    /\ IF UserOf(e.session) # None
       THEN /\ Deliver(SetToBag({FetchUserProfileCall("onAuthStateChange", e.session.user,
                                                       e.event, MountUser, "-")}))
            /\ lastUserLocation' = TrackNavigation(e.session.user, isInitialized, lastUserLocation)
            /\ UNCHANGED <<userProfile, loading, isInitialized, timers>>
       ELSE /\ userProfile' = Null
            /\ HandlerTail(e.event)
            /\ Deliver(EmptyBag)
    /\ UNCHANGED <<sessionError, pathname, user_profiles, lifecycle, subscriptions>>

\* ---- restoreSession, lines 233-253
RestoreSession ==
    /\ lifecycle = "mounted"
    /\ raised' = None
    /\ Begin([Started("restoreSession", "getSession") EXCEPT !.closureUser = user])
    /\ loading' = TRUE
    /\ UNCHANGED <<session, user, userProfile, isInitialized, sessionError, lastUserLocation,
                   pathname, user_profiles, timers, lifecycle, subscriptions>>

RestoreGetSessionReturn(c, r) ==
    /\ lifecycle = "mounted"
    /\ raised' = None
    /\ c \in Restores
    /\ c.pc = "getSession"
    /\ r \in SessionResponses
    /\ IF ~r.threw /\ r.error = Null /\ UserOf(r.data) # None
       THEN /\ session' = r.data
            /\ user' = r.data.user
            /\ Resume(c, FetchUserProfileCall("restoreSession", r.data.user, "-",
                                              c.closureUser, "-"))
            /\ lastUserLocation' = TrackNavigation(r.data.user, isInitialized, lastUserLocation)
            /\ UNCHANGED <<loading, isInitialized, timers>>
       ELSE /\ UNCHANGED <<session, user>>
            /\ RestoreFinally
            /\ Return(c, "-")
    /\ UNCHANGED <<userProfile, sessionError, pathname, user_profiles, lifecycle, subscriptions>>

\* ---- signOut, lines 216-231
\* (a variant whose catch only logs)
SignOutRaises_Swallowed(r) == None

\* what the caller of signOut receives: lines 220-226 throw the error result
\* and rethrow whatever was thrown
SignOutRaises(r) ==
    IF r.threw THEN "exception" ELSE IF r.error # Null THEN r.error.message ELSE None

SignOut ==
    /\ lifecycle = "mounted"
    /\ raised' = None
    /\ Begin(Started("signOut", "signOut"))
    /\ loading' = TRUE
    /\ UNCHANGED <<session, user, userProfile, isInitialized, sessionError, lastUserLocation,
                   pathname, user_profiles, timers, lifecycle, subscriptions>>

SignOutReturn(c, r) ==
    /\ lifecycle = "mounted"
    /\ c \in SignOuts
    /\ r \in SignOutResponses
    /\ loading' = FALSE
    /\ lastUserLocation' = clearStoredLocation
    /\ raised' = SignOutRaises(r)
    /\ Return(c, "-")
    /\ UNCHANGED <<session, user, userProfile, isInitialized, sessionError, pathname,
                   user_profiles, timers, lifecycle, subscriptions>>

\* ---- the end of the mount: the provider's state and its pending calls are
\* ---- dropped from the model, the browser's storage, location and the
\* ---- database stay
EndOfMount(how) ==
    /\ lifecycle' = how
    /\ session' = Null
    /\ user' = None
    /\ userProfile' = Null
    /\ loading' = FALSE
    /\ isInitialized' = FALSE
    /\ sessionError' = None
    /\ boot' = Idle
    /\ pending' = EmptyBag
    /\ started' = 0
    /\ timers' = <<>>
    /\ raised' = None
    /\ UNCHANGED user_profiles

\* ---- signInWithGoogle, lines 191-214: a granted OAuth request leaves the page
SignInWithGoogle(granted) ==
    /\ lifecycle = "mounted"
    /\ lastUserLocation' = IF pathname # CallbackPath
                           THEN storeUserLocation(pathname)
                           ELSE lastUserLocation
    /\ IF granted
       THEN EndOfMount("unloaded") /\ subscriptions' = 0
       ELSE /\ started < MaxCalls
            /\ started' = started + 1
            /\ raised' = "oauth refused"
            /\ UNCHANGED <<session, user, userProfile, loading, isInitialized, sessionError,
                           user_profiles, boot, pending, timers, lifecycle, subscriptions>>
    /\ UNCHANGED pathname

\* ---- the router changes window.location.pathname; the tracking effect
\* ---- (dependencies [user, isInitialized], line 189) does not run
Navigate(path) ==
    /\ lifecycle = "mounted"
    /\ raised' = None
    /\ path \in Paths \ {pathname}
    /\ started < MaxCalls
    /\ pathname' = path
    /\ started' = started + 1
    /\ UNCHANGED <<session, user, userProfile, loading, isInitialized, sessionError,
                   lastUserLocation, user_profiles, boot, pending, timers, lifecycle, subscriptions>>

\* ---- the timer of lines 111-113 fires: window.location.href = lastLocation
FireRedirect ==
    /\ lifecycle = "mounted"
    /\ timers # <<>>
    /\ pathname' = Head(timers)
    /\ EndOfMount("unloaded")
    /\ subscriptions' = 0
    /\ UNCHANGED lastUserLocation

\* (a variant whose cleanup forgets the unsubscribe)
Teardown_KeepsSubscription ==
    /\ lifecycle = "mounted"
    /\ EndOfMount("unmounted")
    /\ UNCHANGED <<lastUserLocation, pathname, subscriptions>>

\* ---- the cleanup of the mount effect, line 128: subscription.unsubscribe()
Teardown ==
    /\ lifecycle = "mounted"
    /\ EndOfMount("unmounted")
    /\ subscriptions' = subscriptions - 1
    /\ UNCHANGED <<lastUserLocation, pathname>>

Next ==
    \/ \E r \in SessionResponses : BootGetSessionReturn(r)
    \/ \E e \in AuthEvents : AuthStateChange(e)
    \/ \E c \in Awaiting("lookup") : \E r \in LookupResponses(c.userId) :
           FetchUserProfileReturn(c, r)
    \/ \E c \in Awaiting("insert") :
           \E r \in InsertResponses(NewProfile(c.userId, c.closureUser)) :
               CreateUserProfileReturn(c, r)
    \/ RestoreSession
    \/ \E c \in Restores : \E r \in SessionResponses : RestoreGetSessionReturn(c, r)
    \/ SignOut
    \/ \E c \in SignOuts : \E r \in SignOutResponses : SignOutReturn(c, r)
    \/ \E granted \in BOOLEAN : SignInWithGoogle(granted)
    \/ \E path \in Paths : Navigate(path)
    \/ FireRedirect
    \/ Teardown

Spec == Init /\ [][Next]_vars

\* every external call in flight eventually returns
FairSpec ==
    /\ Spec
    /\ WF_vars(\E r \in SessionResponses : BootGetSessionReturn(r))
    /\ WF_vars(\E c \in Awaiting("lookup") : \E r \in LookupResponses(c.userId) :
                   FetchUserProfileReturn(c, r))
    /\ WF_vars(\E c \in Awaiting("insert") :
                   \E r \in InsertResponses(NewProfile(c.userId, c.closureUser)) :
                       CreateUserProfileReturn(c, r))
    /\ WF_vars(\E c \in Restores : \E r \in SessionResponses : RestoreGetSessionReturn(c, r))
    /\ WF_vars(\E c \in SignOuts : \E r \in SignOutResponses : SignOutReturn(c, r))

(***************************************************************************)
(* Properties                                                              *)
(***************************************************************************)
Mounted == lifecycle = "mounted"

\* a step in which call c of the pending bag goes on after its await
Resumes(c) ==
    /\ lifecycle' = "mounted"
    /\ started' = started
    /\ CopiesIn(c, pending') < CopiesIn(c, pending)

\* a step in which call c of the pending bag returns to its caller
Returns(c) == Resumes(c) /\ BagCardinality(pending') < BagCardinality(pending)

\* a step in which call c (the bootstrap or a call of the bag) leaves its await
Advances(c) == IF c = boot THEN boot' # boot ELSE Resumes(c)

\* a step after which call c awaits the answer to its insert
GoesOnToInsert(c) ==
    LET d == [c EXCEPT !.pc = "insert"]
    IN  IF c = boot THEN boot' = d ELSE CopiesIn(d, pending') > CopiesIn(d, pending)

\* a step that takes a new input (event, action call, route change)
TakesInput == started' = started + 1

\* the calls that await the answer to an insert for user id
InsertsAwaited(id) ==
    (IF boot.pc = "insert" /\ boot.userId = id THEN 1 ELSE 0)
    + BagCardinality([c \in {d \in BagToSet(pending) : d.pc = "insert" /\ d.userId = id}
                       |-> pending[c]])

\* restoreSession or signOut calls that have not returned
ActionsPending == Restores \cup SignOuts # {}

\* C1: the step that delivers an auth event leaves the store's session equal
\* to the event's session payload and the store's identity equal to the
\* payload's user (null for an absent payload), and the later steps of a
\* listener invocation (after its await) never write session or identity, so
\* an earlier event cannot overwrite what a later one mirrored.
C1_EventMirrored ==
    [][/\ TakesInput =>
            \A e \in AuthEvents :
                AuthStateChange(e) =>
                    /\ session' = e.session
                    /\ user' = (IF e.session = Null THEN None ELSE e.session.user)
       /\ ~TakesInput =>
            \A c \in Handlers : Resumes(c) => session' = session /\ user' = user]_vars

\* two events were delivered, the store mirrors the later one (u2) while the
\* listener invocation of the earlier one (u1) still awaits its profile
C1_Witness ==
    /\ Mounted /\ started = 2 /\ boot.pc = "done" /\ boot.result = "ok"
    /\ session = [user |-> "u2"] /\ user = "u2"
    /\ \E c \in Handlers : c.userId = "u1"
    /\ \E c \in Handlers : c.userId = "u2"

\* C2: within one mount isInitialized starts false, turns true in the step in
\* which getInitialSession finishes and only there, is true once
\* getInitialSession has finished whatever the session fetch returned, and no
\* later step of the mount sets it back to false.
C2_InitializedOnce ==
    /\ ~isInitialized
    /\ [](Mounted /\ boot.pc = "done" => isInitialized)
    /\ [][lifecycle' = "mounted" =>
            /\ (isInitialized => isInitialized')
            /\ (isInitialized' # isInitialized => boot.pc # "done" /\ boot'.pc = "done")]_vars

\* a failed bootstrap finished, both later calls have come and gone, and the
\* flag is still true
C2_Witness ==
    /\ Mounted /\ isInitialized /\ boot.result = "failed"
    /\ started = MaxCalls /\ pending = EmptyBag /\ session = Null

\* C3: once getInitialSession has finished after a failed session fetch (an
\* error result or an exception) an error message is recorded and
\* isInitialized is true; loading is false unless a restoreSession or signOut
\* call is pending; and session and identity are unset when nothing but the
\* bootstrap has run (the failure path itself writes neither).
C3_BootFailure ==
    (Mounted /\ boot.pc = "done" /\ boot.result = "failed") =>
        /\ sessionError # None
        /\ isInitialized
        /\ (~ActionsPending => ~loading)
        /\ (started = 0 => session = Null /\ user = None)

C3_Witness ==
    /\ Mounted /\ boot.pc = "done" /\ boot.result = "failed" /\ started = 0
    /\ sessionError = "Unknown error" /\ ~loading /\ isInitialized /\ session = Null

\* C4: getInitialSession leaves loading and isInitialized alone in every step
\* before its last, so loading stays true while its Profile Resolver call
\* (lookup, then insert) is pending; and when that call has created the row of
\* the fetched user and nothing but the bootstrap has run, the bootstrap ends
\* with identity = that user, profile = the created row with
\* subscription_status "free", loading false and isInitialized true.
C4_BootCreatesProfile ==
    /\ [][boot' # boot /\ boot'.pc \in {"lookup", "insert"} =>
            loading' = loading /\ isInitialized' = isInitialized]_vars
    /\ [](Mounted /\ started = 0 /\ boot.pc # "done" => loading /\ ~isInitialized)
    /\ [][(started = 0 /\ boot.pc = "insert" /\ lifecycle' = "mounted"
            /\ user_profiles'[boot.userId] # Null) =>
            /\ boot'.pc = "done"
            /\ user' = boot.userId
            /\ userProfile' = user_profiles'[boot.userId]
            /\ userProfile'.id = boot.userId
            /\ userProfile'.subscription_status = "free"
            /\ ~loading' /\ isInitialized']_vars

C4_Witness ==
    /\ Mounted /\ started = 0 /\ boot.pc = "done" /\ boot.result = "ok"
    /\ user = "u1" /\ userProfile # Null /\ userProfile.id = "u1"
    /\ userProfile.subscription_status = "free" /\ ~loading /\ isInitialized

\* C5: no second insert is issued for a user: at most one insert for a user
\* id awaits its answer at a time, and none is issued for a user that has a
\* row.
C5_SingleInsert ==
    \A id \in UserIds :
        /\ InsertsAwaited(id) <= 1
        /\ (InsertsAwaited(id) = 1 => user_profiles[id] = Null)

\* C6: when the lookup returns a row the resolver stores that row, issues no
\* insert and leaves the table alone; the resolver issues an insert only when
\* the lookup returned no data with the "no rows" code or with no error.
C6_ReadPathNeverInserts ==
    [][~TakesInput =>
        \A c \in Awaiting("lookup") : Advances(c) =>
            \A r \in LookupResponses(c.userId) :
                FetchUserProfileReturn(c, r) =>
                    /\ user_profiles' = user_profiles
                    /\ r.data # Null => userProfile' = r.data /\ ~GoesOnToInsert(c)
                    /\ GoesOnToInsert(c) =>
                          /\ ~r.threw /\ r.data = Null
                          /\ (r.error = Null \/ r.error.code = "PGRST116")]_vars

\* the bootstrap resolved the existing row of u1: stored, nothing inserted
C6_Witness ==
    /\ Mounted /\ boot.pc = "done" /\ boot.result = "ok" /\ started = 0
    /\ userProfile = ExistingRow("u1") /\ user_profiles["u1"] = ExistingRow("u1")

\* C7: while B is the current identity and B's profile is stored, no step
\* replaces the stored profile by the profile of another identity.
C7_NoStaleProfile ==
    [][(lifecycle' = "mounted" /\ user # None /\ user' = user
        /\ userProfile # Null /\ userProfile.id = user /\ userProfile' # Null)
       => userProfile'.id = user]_vars

\* C8: a step that ends the handling of an auth event while loading is true
\* leaves loading false.
C8_HandlerClearsLoading ==
    [][(loading /\ ((\E e \in AuthEvents : e.session = Null /\ AuthStateChange(e))
                    \/ (\E c \in Handlers : Returns(c))))
       => ~loading']_vars

\* C9: the step that ends the handling of a SIGNED_IN event appends exactly
\* one navigation to Last Location and leaves Last Location alone when Last
\* Location is a path other than "/auth/callback" and "/"; every other step
\* that ends or starts the handling of an event schedules nothing.
C9_RedirectOnce ==
    [][/\ ~TakesInput =>
            \A c \in Handlers : Returns(c) =>
                IF c.event = "SIGNED_IN"
                   /\ lastUserLocation \notin {None, "/auth/callback", "/"}
                THEN /\ timers' = Append(timers, lastUserLocation)
                     /\ lastUserLocation' = lastUserLocation
                ELSE timers' = timers
       /\ TakesInput =>
            \A e \in AuthEvents : AuthStateChange(e) => timers' = timers]_vars

C9_Witness ==
    /\ Mounted /\ timers = <<"/dashboard">> /\ lastUserLocation = "/dashboard"
    /\ started = 1 /\ pending = EmptyBag /\ session # Null

\* C10: the step that handles a SIGNED_OUT event leaves Location Memory
\* empty.
C10_SignedOutClearsLocation ==
    [][TakesInput =>
        \A e \in AuthEvents :
            (e.event = "SIGNED_OUT" /\ AuthStateChange(e)) => lastUserLocation' = None]_vars

\* the bootstrap signed u1 in (it created u1's row); a SIGNED_OUT event, the
\* one input of the run, emptied the store's session and the location
C10_Witness ==
    /\ Mounted /\ boot.pc = "done" /\ boot.result = "ok"
    /\ user_profiles["u1"] # Null /\ user_profiles["u1"].subscription_status = "free"
    /\ pending = EmptyBag
    /\ pathname # CallbackPath /\ started = 1
    /\ session = Null /\ lastUserLocation = None

\* a step after which React runs the tracking effect with a signed-in
\* identity in an initialized provider: one of its dependencies changed
TrackingRuns ==
    /\ lifecycle' = "mounted" /\ user' # None /\ isInitialized'
    /\ (user' # user \/ isInitialized' # isInitialized)

\* C11: after each write the controller makes to Location Memory
\* (signInWithGoogle, the navigation tracking effect) for the current path p,
\* reading Location Memory gives p, except that for p = "/auth/callback"
\* nothing is written and the read gives the value stored before.
C11_StoreThenGet ==
    [][/\ (\E granted \in BOOLEAN : SignInWithGoogle(granted)) =>
            getStoredLocation' = IF pathname # "/auth/callback"
                                 THEN pathname
                                 ELSE getStoredLocation
       /\ TrackingRuns =>
            getStoredLocation' = IF pathname' # "/auth/callback"
                                 THEN pathname'
                                 ELSE getStoredLocation]_vars

\* a refused sign-in at "/" during the bootstrap: the path was stored over
\* the value the browser held before
C11_Witness ==
    /\ Mounted /\ raised = "oauth refused" /\ boot.pc = "getSession"
    /\ pathname = "/" /\ getStoredLocation = "/"
\* C12: the step that calls signOut sets loading true and leaves the external
\* request awaited; the step in which the request completes (success, error
\* result or exception) leaves loading false and Location Memory empty, and
\* that same step, not an earlier one, hands the failure to the caller:
\* the caller receives an error exactly when the request failed.
C12_SignOutCleanup ==
    [][/\ TakesInput =>
            (SignOut => loading' /\ BagCardinality(pending') = BagCardinality(pending) + 1
                                /\ raised' = None)
       /\ ~TakesInput =>
            \A c \in SignOuts : \A r \in SignOutResponses :
                SignOutReturn(c, r) =>
                    /\ ~loading'
                    /\ getStoredLocation' = None
                    /\ (r.threw \/ r.error # Null) <=> raised' # None]_vars

\* a signOut whose request returned an error result: cleaned up and re-raised
C12_Witness ==
    /\ Mounted /\ raised = "sign-out failed" /\ ~loading /\ getStoredLocation = None
    /\ boot.pc = "done" /\ session # Null /\ pending = EmptyBag
\* C13: the step in which restoreSession's re-fetch answers without error
\* leaves the store's session and identity equal to the fetched session and
\* its user (both absent when the service reports no session); the step in
\* which the re-fetch fails changes neither, raises nothing to the caller and
\* leaves loading false.
C13_RestoreResyncs ==
    [][~TakesInput =>
        \A c \in Restores : \A r \in SessionResponses :
            RestoreGetSessionReturn(c, r) =>
                IF ~r.threw /\ r.error = Null
                THEN session' = r.data /\ user' = UserOf(r.data) /\ raised' = None
                ELSE /\ session' = session /\ user' = user
                     /\ raised' = None /\ ~loading']_vars
\* C14: the step in which a profile lookup fails with an error other than
\* "no rows" (or throws) starts no insert, writes no row, leaves the store
\* without a profile, and leaves the store's session and identity as they
\* were.
C14_LookupFailureLeavesUnset ==
    [][~TakesInput =>
        \A c \in Awaiting("lookup") : Advances(c) =>
            \A r \in LookupResponses(c.userId) :
                (LookupFailed(r) /\ FetchUserProfileReturn(c, r)) =>
                    /\ ~GoesOnToInsert(c)
                    /\ user_profiles' = user_profiles
                    /\ userProfile' = Null
                    /\ session' = session /\ user' = user]_vars
\* C15: every profile row of the table, the rows the resolver inserted
\* included, carries the email, full name and avatar URL of the identity
\* whose id it has, and an inserted row has subscription status "free".
C15_RowCarriesIdentity ==
    \A id \in UserIds :
        user_profiles[id] # Null =>
            /\ user_profiles[id].id = id
            /\ RowEmail(user_profiles[id]) = Email(id)
            /\ RowFullName(user_profiles[id]) = FullName(id)
            /\ RowAvatarUrl(user_profiles[id]) = AvatarUrl(id)
            /\ user_profiles[id] # ExistingRow(id) =>
                  user_profiles[id].subscription_status = "free"
\* C16: while a signed-in identity is present and the provider is
\* initialized, every step that changes the current path to a path other
\* than "/auth/callback" leaves that path in Location Memory.
C16_EveryPathChangeTracked ==
    [][TakesInput =>
        \A path \in Paths :
            (user # None /\ isInitialized /\ path # "/auth/callback" /\ Navigate(path)) =>
                getStoredLocation' = path]_vars
\* the number of listener invocations that await a response
HandlersInFlight == BagCardinality([c \in Handlers |-> pending[c]])

\* C17: the step that mirrors an event with a session schedules no redirect
\* (the redirect decision and the location clear of an event come in or after
\* its mirroring step), and a listener invocation that goes on after an await
\* is the only one in flight: no later event has written to the store before
\* the earlier event's profile resolution and redirect decision are done.
C17_EventsInOrder ==
    [][/\ TakesInput =>
            \A e \in AuthEvents :
                (e.session # Null /\ AuthStateChange(e)) =>
                    timers' = timers /\ session' = e.session
       /\ ~TakesInput =>
            \A c \in Handlers : Resumes(c) => HandlersInFlight = 1]_vars
\* C18: from the mount to the teardown exactly one subscription to the auth
\* event stream is registered, and after the teardown none is.
C18_SingleSubscription ==
    /\ Mounted => subscriptions = 1
    /\ lifecycle = "unmounted" => subscriptions = 0

\* the provider was unmounted while Location Memory held "/"
C18_Witness ==
    lifecycle = "unmounted" /\ subscriptions = 0 /\ getStoredLocation = "/"
\* C19: the step in which a getSession call of the bootstrap or of
\* restoreSession answers, after an auth event was handled while the call
\* was awaited, leaves the store's session and identity as the event handling
\* left them.
C19_StaleFetchIgnored ==
    [][~TakesInput =>
        /\ boot.overtaken =>
              \A r \in SessionResponses :
                  BootGetSessionReturn(r) => session' = session /\ user' = user
        /\ \A c \in Restores : c.overtaken =>
              \A r \in SessionResponses :
                  RestoreGetSessionReturn(c, r) => session' = session /\ user' = user]_vars
\* C20: whenever the bootstrap has completed and no signOut or restoreSession
\* call is in flight, loading is false; loading turns true only in a step
\* that starts a signOut or a restoreSession; and, every external call
\* returning eventually, loading is false from some point on.
C20_LoadingSettles ==
    /\ [](Mounted /\ boot.pc = "done" /\ ~ActionsPending => ~loading)
    /\ [][(~loading /\ loading') => (SignOut \/ RestoreSession)]_vars
    /\ <>[](~loading)

\* the bootstrap is done and a signOut whose request threw has returned
C20_Witness ==
    /\ Mounted /\ boot.pc = "done" /\ ~ActionsPending /\ ~loading
    /\ started = MaxCalls /\ raised = "exception"
====
